---------------------------- MODULE Spec2Model ----------------------------
(* A model of discrete_summary_checker/example/Check_Format.ipynb: the     *)
(* header check loop, the element and series validators, the validation   *)
(* schema and the station-by-station metadata validation.  Each stage of  *)
(* the notebook has a specification of its own (Spec, SpecColumn, ...):   *)
(* its Init draws the stage's inputs from bounded sets and its actions    *)
(* are the stage's steps.  The variables of the other stages rest.        *)
EXTENDS Integers, Sequences, FiniteSets, TLC

VARIABLES
    stage,           \* which cell of the notebook is running
    column_headers,  \* the expected header tuple (ColumnHeaders.csv)
    columns,         \* summary_sheet.columns, the actual header sequence
    k,               \* position of the header loop, 0-based as in enumerate()
    printed,         \* the lines the header loop has printed, in order
    ci,              \* the schema column being validated (1-based)
    series,          \* the values of that column, one per row
    vi,              \* the next validation of the column's list (1-based)
    errors,          \* the ValidationWarnings collected so far, in order
    raised,          \* an exception has left the running cell
    summary_sheet,   \* the table read from the summary sheet
    history,         \* the outcomes of the runs of schema.validate, in order
    metadata,        \* summary_sheet[metadata_columns]
    cruises,         \* the cruises the outer loop has still to visit
    cruise_data,     \* the rows of the cruise being visited
    stations,        \* the stations the inner loop has still to visit
    leaf_groups      \* the row labels of each station_data selected so far

vars == <<stage, column_headers, columns, k, printed, ci, series, vi, errors, raised,
          summary_sheet, history, metadata, cruises, cruise_data, stations,
          leaf_groups>>

headerVars == <<column_headers, columns, k, printed>>
HeaderRests == column_headers = << >> /\ columns = << >> /\ k = 0 /\ printed = << >>
columnVars == <<ci, series, vi, errors, raised>>
ColumnRests == ci = 0 /\ series = << >> /\ vi = 0 /\ errors = << >> /\ raised = FALSE
\* A table: its column names, its row labels and its values by column.
DataFrame(cols, index, data) == [columns |-> cols, index |-> index, data |-> data]
NoFrame == DataFrame(<< >>, << >>, << >>)
tableVars == <<summary_sheet, history>>
TableRests == summary_sheet = NoFrame /\ history = << >>
groupVars == <<metadata, cruises, cruise_data, stations, leaf_groups>>
GroupRests ==
    /\ metadata = NoFrame /\ cruises = << >> /\ cruise_data = NoFrame /\ stations = << >>
    /\ leaf_groups = << >>

---------------------------------------------------------------------------
(* Helpers                                                                 *)

Range(s) == {s[i] : i \in DOMAIN s}

SeqsUpTo(S, n) == UNION {[1..m -> S] : m \in 0..n}

IsInjective(s) == \A i, j \in DOMAIN s : s[i] = s[j] => i = j

---------------------------------------------------------------------------
(* Cell values and the Python conversions the validators apply to them     *)

\* A cell of the table as pandas.read_excel delivers it: a str (s, one
\* character per element), an int (m), a finite float (m / 10^e, e the
\* number of decimals, no trailing zero decimal) or NaN, the blank cell.
StrCell(s) == [k |-> "str", s |-> s, m |-> 0, e |-> 0]
IntCell(n) == [k |-> "int", s |-> << >>, m |-> n, e |-> 0]
FloatCell(m, e) == [k |-> "float", s |-> << >>, m |-> m, e |-> e]
NaNCell == [k |-> "nan", s |-> << >>, m |-> 0, e |-> 0]

Digits == <<"0", "1", "2", "3", "4", "5", "6", "7", "8", "9">>
DigitSet == Range(Digits)
DigitVal(c) == (CHOOSE i \in DOMAIN Digits : Digits[i] = c) - 1

RECURSIVE Pow10(_)
Pow10(n) == IF n <= 0 THEN 1 ELSE 10 * Pow10(n - 1)

Abs(n) == IF n < 0 THEN -n ELSE n

RECURSIVE NatStr(_)
NatStr(n) == IF n < 10 THEN <<Digits[n + 1]>>
             ELSE NatStr(n \div 10) \o <<Digits[(n % 10) + 1]>>

RECURSIVE Padded(_, _)
Padded(n, width) == IF width <= 0 THEN << >>
                    ELSE Padded(n \div 10, width - 1) \o <<Digits[(n % 10) + 1]>>

\* str(x) (and Series.astype(str)): a str is itself, an int its decimal
\* digits, a float its shortest repr (fixed notation: every float of the
\* model lies in 1e-4 <= |x| < 1e16, or is 0), NaN is "nan".
PyStr(cell) ==
    CASE cell.k = "str" -> cell.s
      [] cell.k = "int" ->
            (IF cell.m < 0 THEN <<"-">> ELSE << >>) \o NatStr(Abs(cell.m))
      [] cell.k = "float" ->
            (IF cell.m < 0 THEN <<"-">> ELSE << >>)
            \o NatStr(Abs(cell.m) \div Pow10(cell.e)) \o <<".">>
            \o (IF cell.e = 0 THEN <<"0">>
                ELSE Padded(Abs(cell.m) % Pow10(cell.e), cell.e))
      [] OTHER -> <<"n", "a", "n">>

---------------------------------------------------------------------------
(* Regular expressions (Python re), as the patterns of the schema and the  *)
(* literal grammars of int(), Decimal(), pandas.to_numeric and strptime    *)
(* use them                                                                *)

Re(op, cs, rs, lo, hi) == [op |-> op, cs |-> cs, rs |-> rs, lo |-> lo, hi |-> hi]
Ch(cs) == Re("set", cs, << >>, 0, 0)           \* one character of cs
Lit(c) == Ch({c})
AnyCh == Re("any", {}, << >>, 0, 0)            \* .
Eos == Re("eos", {}, << >>, 0, 0)              \* $
Cat(rs) == Re("cat", {}, rs, 0, 0)             \* r1 r2 ...
Alt(rs) == Re("alt", {}, rs, 0, 0)             \* r1 | r2 | ...
Rep(r, lo, hi) == Re("rep", {}, <<r>>, lo, hi) \* r{lo,hi}
Opt(r) == Rep(r, 0, 1)                         \* r?
Star(r) == Re("star", {}, <<r>>, 0, 0)         \* r*
Plus(r) == Cat(<<r, Star(r)>>)                 \* r+
Word(s) == Cat([i \in DOMAIN s |-> Lit(s[i])])
Digit == Ch(DigitSet)                          \* \d, [0-9]

RECURSIVE Ends(_, _, _), EndsCat(_, _, _, _), EndsRep(_, _, _, _, _),
          EndsStar(_, _, _, _)

\* The positions (characters consumed) at which a match of r that starts
\* at position i of s can end.
Ends(r, s, i) ==
    CASE r.op = "set" -> IF i < Len(s) /\ s[i + 1] \in r.cs THEN {i + 1} ELSE {}
      [] r.op = "any" -> IF i < Len(s) THEN {i + 1} ELSE {}
      [] r.op = "eos" -> IF i = Len(s) THEN {i} ELSE {}
      [] r.op = "cat" -> EndsCat(r.rs, 1, s, {i})
      [] r.op = "alt" -> UNION {Ends(r.rs[j], s, i) : j \in DOMAIN r.rs}
      [] r.op = "rep" -> EndsRep(r.rs[1], r.lo, r.hi, s, {i})
      [] OTHER -> EndsStar(r.rs[1], s, {i}, {i})

EndsCat(rs, j, s, from) ==
    IF j > Len(rs) \/ from = {} THEN from
    ELSE EndsCat(rs, j + 1, s, UNION {Ends(rs[j], s, p) : p \in from})

EndsRep(r, lo, hi, s, from) ==
    IF hi = 0 \/ from = {} THEN (IF lo <= 0 THEN from ELSE {})
    ELSE (IF lo <= 0 THEN from ELSE {})
         \cup EndsRep(r, lo - 1, hi - 1, s, UNION {Ends(r, s, p) : p \in from})

EndsStar(r, s, frontier, seen) ==
    LET more == (UNION {Ends(r, s, p) : p \in frontier}) \ seen
    IN IF more = {} THEN seen ELSE EndsStar(r, s, more, seen \cup more)

\* re.search: a match anywhere in s (Series.str.contains).
Search(r, s) == \E i \in 0..Len(s) : Ends(r, s, i) # {}

\* re.fullmatch: a match of the whole of s.
FullMatch(r, s) == Len(s) \in Ends(r, s, 0)

---------------------------------------------------------------------------
(* int(), Decimal(), pandas.to_numeric and datetime.strptime               *)

Ws == Ch({" "})
Sign == Ch({"+", "-"})
ExpMark == Ch({"e", "E"})
\* digits+ (. digits*)? | . digits+
Mantissa == Alt(<<Cat(<<Plus(Digit), Opt(Cat(<<Lit("."), Star(Digit)>>))>>),
                  Cat(<<Lit("."), Plus(Digit)>>)>>)
Exponent == Cat(<<ExpMark, Opt(Sign), Plus(Digit)>>)
InfWord == Cat(<<Ch({"i", "I"}), Ch({"n", "N"}), Ch({"f", "F"}),
                 Opt(Cat(<<Ch({"i", "I"}), Ch({"n", "N"}), Ch({"i", "I"}),
                           Ch({"t", "T"}), Ch({"y", "Y"})>>))>>)
NanWord == Cat(<<Ch({"n", "N"}), Ch({"a", "A"}), Ch({"n", "N"})>>)

\* int(str): surrounding blanks, an optional sign, digits with single
\* underscores between them.
IntLiteral == Cat(<<Star(Ws), Opt(Sign), Digit,
                    Star(Cat(<<Opt(Lit("_")), Digit>>)), Star(Ws)>>)

\* Decimal(str), after its strip() and removal of underscores.
DecimalLiteral ==
    Cat(<<Star(Ws), Opt(Sign),
          Alt(<<Cat(<<Mantissa, Opt(Exponent)>>), InfWord,
                Cat(<<Opt(Ch({"s", "S"})), NanWord, Star(Digit)>>)>>),
          Star(Ws)>>)

\* The finite numbers pandas.to_numeric parses from a str.
FloatLiteral == Cat(<<Star(Ws), Opt(Sign), Mantissa, Opt(Exponent), Star(Ws)>>)
\* Its non-finite words.
FloatWord == Cat(<<Star(Ws), Opt(Sign), Alt(<<InfWord, NanWord>>), Star(Ws)>>)

\* int(num): "ok", or the exception raised.  A float is truncated; NaN
\* raises ValueError (cannot convert float NaN to integer).
PyInt(cell) ==
    CASE cell.k = "str" -> IF FullMatch(IntLiteral, cell.s) THEN "ok" ELSE "ValueError"
      [] cell.k = "int" -> "ok"
      [] cell.k = "float" -> "ok"
      [] OTHER -> "ValueError"

\* Decimal(dec): "ok", or the exception raised.  Every int and float,
\* NaN included, converts.
PyDecimal(cell) ==
    CASE cell.k = "str" ->
            IF FullMatch(DecimalLiteral, SelectSeq(cell.s, LAMBDA c : c # "_"))
            THEN "ok" ELSE "InvalidOperation"
      [] OTHER -> "ok"

\* A number: finite (m / 10^e), NaN or an infinity.
Num(t, m, e) == [t |-> t, m |-> m, e |-> e]

FirstPos(s, cs) ==
    IF \E i \in DOMAIN s : s[i] \in cs
    THEN CHOOSE i \in DOMAIN s : s[i] \in cs /\ \A j \in 1..(i - 1) : s[j] \notin cs
    ELSE 0

RECURSIVE DigitsVal(_)
DigitsVal(s) == IF s = << >> THEN 0
                ELSE 10 * DigitsVal(SubSeq(s, 1, Len(s) - 1)) + DigitVal(s[Len(s)])

SignedVal(s) ==
    IF s # << >> /\ s[1] \in {"+", "-"}
    THEN (IF s[1] = "-" THEN -1 ELSE 1) * DigitsVal(SubSeq(s, 2, Len(s)))
    ELSE DigitsVal(s)

\* The value of a str that matches FloatLiteral.
LiteralValue(s) ==
    LET body == SelectSeq(s, LAMBDA c : c # " ")
        neg == body[1] = "-"
        uns == IF body[1] \in {"+", "-"} THEN SubSeq(body, 2, Len(body)) ELSE body
        ep == FirstPos(uns, {"e", "E"})
        mant == IF ep = 0 THEN uns ELSE SubSeq(uns, 1, ep - 1)
        expo == IF ep = 0 THEN 0 ELSE SignedVal(SubSeq(uns, ep + 1, Len(uns)))
        dp == FirstPos(mant, {"."})
        ipart == IF dp = 0 THEN mant ELSE SubSeq(mant, 1, dp - 1)
        fpart == IF dp = 0 THEN << >> ELSE SubSeq(mant, dp + 1, Len(mant))
        mag == DigitsVal(ipart \o fpart)
        scale == Len(fpart) - expo
        m == IF neg THEN -mag ELSE mag
    IN IF scale < 0 THEN Num("num", m * Pow10(-scale), 0) ELSE Num("num", m, scale)

\* pandas.to_numeric on one element: [err, v], err TRUE when it raises
\* ValueError (Unable to parse string).
ToNumeric(cell) ==
    CASE cell.k = "str" ->
            IF FullMatch(FloatLiteral, cell.s)
            THEN [err |-> FALSE, v |-> LiteralValue(cell.s)]
            ELSE IF FullMatch(FloatWord, cell.s)
            THEN [err |-> FALSE,
                  v |-> IF FirstPos(cell.s, {"i", "I"}) = 0 THEN Num("nan", 0, 0)
                        ELSE IF FirstPos(cell.s, {"-"}) # 0 THEN Num("-inf", 0, 0)
                        ELSE Num("inf", 0, 0)]
            ELSE [err |-> TRUE, v |-> Num("nan", 0, 0)]
      [] cell.k = "nan" -> [err |-> FALSE, v |-> Num("nan", 0, 0)]
      [] OTHER -> [err |-> FALSE, v |-> Num("num", cell.m, cell.e)]

\* a >= b and a < b on numbers; every comparison with NaN is False.
NumGE(a, b) ==
    CASE a.t = "nan" \/ b.t = "nan" -> FALSE
      [] a.t = "inf" \/ b.t = "-inf" -> TRUE
      [] a.t = "-inf" \/ b.t = "inf" -> FALSE
      [] OTHER -> a.m * Pow10(b.e) >= b.m * Pow10(a.e)
NumLT(a, b) ==
    CASE a.t = "nan" \/ b.t = "nan" -> FALSE
      [] a.t = "inf" \/ b.t = "-inf" -> FALSE
      [] a.t = "-inf" \/ b.t = "inf" -> TRUE
      [] OTHER -> a.m * Pow10(b.e) < b.m * Pow10(a.e)

\* strptime's pattern for "%Y-%m-%dT%H:%M:%S.%fZ" (compiled IGNORECASE).
Two(hi, lo) == Cat(<<Ch(hi), Ch(lo)>>)
DateFormat ==
    Cat(<<Rep(Digit, 4, 4), Lit("-"),
          Alt(<<Two({"1"}, {"0", "1", "2"}), Two({"0"}, DigitSet \ {"0"}),
                Ch(DigitSet \ {"0"})>>), Lit("-"),
          Alt(<<Two({"3"}, {"0", "1"}), Two({"1", "2"}, DigitSet),
                Two({"0"}, DigitSet \ {"0"}), Ch(DigitSet \ {"0"}),
                Two({" "}, DigitSet \ {"0"})>>), Ch({"T", "t"}),
          Alt(<<Two({"2"}, {"0", "1", "2", "3"}), Two({"0", "1"}, DigitSet), Digit>>),
          Lit(":"),
          Alt(<<Two({"0", "1", "2", "3", "4", "5"}, DigitSet), Digit>>), Lit(":"),
          Alt(<<Two({"6"}, {"0", "1"}), Two({"0", "1", "2", "3", "4", "5"}, DigitSet),
                Digit>>), Lit("."),
          Rep(Digit, 1, 6), Ch({"Z", "z"})>>)

DaysInMonth(y, m) ==
    IF m = 2 THEN (IF y % 4 = 0 /\ (y % 100 # 0 \/ y % 400 = 0) THEN 29 ELSE 28)
    ELSE IF m \in {4, 6, 9, 11} THEN 30 ELSE 31

\* datetime.strptime(val, "%Y-%m-%dT%H:%M:%S.%fZ") succeeds: the whole of
\* val matches and the fields make a date and a time.
ValidDate(s) ==
    /\ FullMatch(DateFormat, s)
    /\ LET d1 == 5
           rest1 == SubSeq(s, d1 + 1, Len(s))
           d2 == d1 + FirstPos(rest1, {"-"})
           tp == FirstPos(s, {"T", "t"})
           c1 == FirstPos(s, {":"})
           rest2 == SubSeq(s, c1 + 1, Len(s))
           c2 == c1 + FirstPos(rest2, {":"})
           dot == FirstPos(s, {"."})
           year == DigitsVal(SubSeq(s, 1, 4))
           month == DigitsVal(SubSeq(s, d1 + 1, d2 - 1))
           day == DigitsVal(SelectSeq(SubSeq(s, d2 + 1, tp - 1), LAMBDA c : c # " "))
           second == DigitsVal(SubSeq(s, c2 + 1, dot - 1))
       IN year >= 1 /\ day <= DaysInMonth(year, month) /\ second <= 59

---------------------------------------------------------------------------
(* Custom validators (notebook lines 140-175) and the validations of       *)
(* pandas_schema the schema uses                                           *)

Truth(b) == IF b THEN "True" ELSE "False"

\* check_decimal: "True", "False", or "raise" when Decimal() raises
\* anything but InvalidOperation.
check_decimal(dec) ==
    LET r == PyDecimal(dec)
    IN IF r = "ok" THEN "True" ELSE IF r = "InvalidOperation" THEN "False" ELSE "raise"

\* A plausible slip: the handler names TypeError, so the ValueError of a
\* malformed or blank cell leaves check_int.
check_int_TypeError(num) ==
    LET r == PyInt(num)
    IN IF r = "ok" THEN "True" ELSE IF r = "TypeError" THEN "False" ELSE "raise"

\* check_int: "True", "False", or "raise" when int() raises anything but
\* ValueError.
check_int(num) ==
    LET r == PyInt(num)
    IN IF r = "ok" THEN "True" ELSE IF r = "ValueError" THEN "False" ELSE "raise"

\* A plausible slip: only the length of a flag, 17, is accepted, not the
\* length 8 of the fill value.
check_len_17(flag) == Truth(Len(PyStr(flag)) = 17)

\* check_len: the length of str(flag) is 17 or 8.
check_len(flag) == Truth(Len(PyStr(flag)) = 17 \/ Len(PyStr(flag)) = 8)

\* Series == value, element by element: NaN equals nothing, numbers
\* compare by value, a str equals only the same str.
CellEq(a, b) ==
    CASE a.k = "nan" \/ b.k = "nan" -> FALSE
      [] a.k = "str" \/ b.k = "str" -> a.k = b.k /\ a.s = b.s
      [] OTHER -> a.m * Pow10(b.e) = b.m * Pow10(a.e)

Validation(v, f, re, lo, hi, kids) ==
    [v |-> v, f |-> f, re |-> re, lo |-> lo, hi |-> hi, kids |-> kids]
NoNum == Num("nan", 0, 0)
Dec(m, e) == Num("num", m, e)

\* CustomElementValidation(lambda d: f(d), message)
CustomElementValidation(f) == Validation("element", f, Eos, NoNum, NoNum, << >>)
DecimalValidation == CustomElementValidation("check_decimal")
IntValidation == CustomElementValidation("check_int")
LengthValidation == CustomElementValidation("check_len")
\* CustomSeriesValidation(is_same, message)
IsSameValidation == Validation("series", "is_same", Eos, NoNum, NoNum, << >>)
InRangeValidation(min, max) == Validation("range", "", Eos, min, max, << >>)
MatchesPatternValidation(pattern) == Validation("pattern", "", pattern, NoNum, NoNum, << >>)
InListValidation(options) == Validation("list", "", Eos, NoNum, NoNum, options)
DateFormatValidation == Validation("date", "", Eos, NoNum, NoNum, << >>)
\* a | b and a & b of two validations
Or(a, b) == Validation("or", "", Eos, NoNum, NoNum, <<a, b>>)
And(a, b) == Validation("and", "", Eos, NoNum, NoNum, <<a, b>>)

Column(name, validations) == [name |-> name, validations |-> validations]

\* The result of validate(series): raised, or one boolean per row.
Raised == [raised |-> TRUE, ok |-> << >>]
Passed(ok) == [raised |-> FALSE, ok |-> ok]

ElementCall(f, cell) ==
    CASE f = "check_decimal" -> check_decimal(cell)
      [] f = "check_int" -> check_int(cell)
      [] OTHER -> check_len(cell)

\* Python's order on the values of one column: numbers by value, strs by
\* their characters (the model's characters in code point order).
CodePoints == <<" ", "*", "+", "-", ".", "/", "0", "1", "2", "3", "4", "5", "6", "7",
                "8", "9", ":", "<", "T", "Z", "_", "a", "b", "c", "e", "h", "n", "x">>
CodePoint(c) == CHOOSE i \in DOMAIN CodePoints : CodePoints[i] = c
RECURSIVE StrLE(_, _)
StrLE(a, b) ==
    IF a = << >> THEN TRUE
    ELSE IF b = << >> THEN FALSE
    ELSE IF a[1] = b[1] THEN StrLE(Tail(a), Tail(b))
    ELSE CodePoint(a[1]) < CodePoint(b[1])
CellLE(a, b) ==
    IF a.k = "str" THEN StrLE(a.s, b.s) ELSE a.m * Pow10(b.e) <= b.m * Pow10(a.e)

Count(vals, x) == Cardinality({i \in DOMAIN vals : CellEq(vals[i], x)})

\* series.mode(): the most frequent values, nulls dropped, sorted.
\* Here the set of them; ModeFirst is element [0] of the sorted result.
Modes(vals) ==
    {vals[i] : i \in {j \in DOMAIN vals :
        /\ vals[j].k # "nan"
        /\ \A h \in DOMAIN vals : Count(vals, vals[h]) <= Count(vals, vals[j])}}
\* A plausible slip: of the tied values the one met first in the column,
\* as an unsorted mode would give it.
ModeFirstByRow(vals) ==
    vals[CHOOSE i \in DOMAIN vals :
            /\ vals[i] \in Modes(vals)
            /\ \A j \in 1..(i - 1) : vals[j] \notin Modes(vals)]
ModeFirst(vals) == CHOOSE x \in Modes(vals) : \A y \in Modes(vals) : CellLE(x, y)

\* is_same: series == series.mode()[0]; [0] of an empty mode raises.
is_same(vals) ==
    IF Modes(vals) = {} THEN Raised
    ELSE Passed([i \in DOMAIN vals |-> CellEq(vals[i], ModeFirst(vals))])

RECURSIVE Validate(_, _)
\* validation.validate(series).  A combined validation evaluates both of
\* its sides; InRangeValidation converts the whole series with
\* pandas.to_numeric first and tests min <= x < max.
Validate(v, vals) ==
    CASE v.v = "element" ->
            IF \E i \in DOMAIN vals : ElementCall(v.f, vals[i]) = "raise" THEN Raised
            ELSE Passed([i \in DOMAIN vals |-> ElementCall(v.f, vals[i]) = "True"])
      [] v.v = "series" -> is_same(vals)
      [] v.v = "range" ->
            IF \E i \in DOMAIN vals : ToNumeric(vals[i]).err THEN Raised
            ELSE Passed([i \in DOMAIN vals |->
                    /\ NumGE(ToNumeric(vals[i]).v, v.lo)
                    /\ NumLT(ToNumeric(vals[i]).v, v.hi)])
      [] v.v = "pattern" -> Passed([i \in DOMAIN vals |-> Search(v.re, PyStr(vals[i]))])
      [] v.v = "list" ->
            Passed([i \in DOMAIN vals |->
                    vals[i].k = "str" /\ vals[i].s \in Range(v.kids)])
      [] v.v = "date" -> Passed([i \in DOMAIN vals |-> ValidDate(PyStr(vals[i]))])
      [] OTHER ->
            LET a == Validate(v.kids[1], vals)
                b == Validate(v.kids[2], vals)
            IN IF a.raised \/ b.raised THEN Raised
               ELSE Passed([i \in DOMAIN vals |->
                       IF v.v = "or" THEN a.ok[i] \/ b.ok[i] ELSE a.ok[i] /\ b.ok[i]])

---------------------------------------------------------------------------
(* The validation schema (notebook lines 196-332) and the metadata schema  *)
(* (lines 395-405)                                                         *)

\* The fill value and the patterns of the schema.
Fill == <<"-", "9", "9", "9", "9", "9", "9", "9">>
FlagBits == 16
Bit == Alt(<<Lit("0"), Lit("1")>>)
FillPattern == Word(Fill)                                   \* -9999999
\* \*0|1{16}: the alternation splits the whole pattern, "*0" or sixteen 1s
FlagPatternUngrouped ==
    Alt(<<Cat(<<Lit("*"), Lit("0")>>), Rep(Lit("1"), FlagBits, FlagBits)>>)
FlagPattern == Cat(<<Lit("*"), Rep(Bit, FlagBits, FlagBits)>>)         \* \*(0|1){16}
HexFilePattern == Cat(<<Star(AnyCh), Lit("."), Word(<<"h", "e", "x">>), Eos>>) \* .*\.hex$
RatioPattern == Cat(<<Rep(Digit, 2, 2), Lit("/"), Rep(Digit, 2, 2), Eos>>) \* [0-9]{2}/[0-9]{2}$
BelowDetectionPattern == Cat(<<Lit("<"), Digit, AnyCh, Rep(Digit, 2, 2)>>) \* <\d.\d{2}

\* The official cruise names (CruiseInformation.csv, column CUID): here two.
cruise_names == << <<"c", "1">>, <<"c", "2">> >>

schema == <<
    Column("Cruise", <<Or(InListValidation(cruise_names), MatchesPatternValidation(FillPattern))>>),
    Column("Station", <<IntValidation>>),
    Column("Target Asset", <<>>),
    Column("Start Latitude [degrees]", <<InRangeValidation(Dec(-90, 0), Dec(90, 0))>>),
    Column("Start Longitude [degrees]", <<InRangeValidation(Dec(-180, 0), Dec(180, 0))>>),
    Column("Start Time [UTC]", <<DateFormatValidation>>),
    Column("Cast", <<IntValidation>>),
    Column("Cast Flag", <<LengthValidation, Or(MatchesPatternValidation(FlagPatternUngrouped), MatchesPatternValidation(FillPattern))>>),
    Column("Bottom Depth at Start Position [m]", <<Or(InRangeValidation(Dec(0, 0), Dec(6000, 0)), MatchesPatternValidation(FillPattern))>>),
    Column("CTD File", <<Or(MatchesPatternValidation(HexFilePattern), MatchesPatternValidation(FillPattern))>>),
    Column("CTD File Flag", <<LengthValidation, Or(MatchesPatternValidation(FlagPattern), MatchesPatternValidation(FillPattern))>>),
    Column("Niskin/Bottle Position", <<IntValidation, Or(InRangeValidation(Dec(0, 0), Dec(25, 0)), MatchesPatternValidation(FillPattern))>>),
    Column("Niskin Flag", <<LengthValidation, Or(MatchesPatternValidation(FlagPattern), MatchesPatternValidation(FillPattern))>>),
    Column("CTD Bottle Closure Time [UTC]", <<Or(DateFormatValidation, MatchesPatternValidation(FillPattern))>>),
    Column("CTD Pressure [db]", <<DecimalValidation, Or(InRangeValidation(Dec(0, 0), Dec(6000, 0)), MatchesPatternValidation(FillPattern))>>),
    Column("CTD Pressure Flag", <<Or(MatchesPatternValidation(FlagPatternUngrouped), MatchesPatternValidation(FillPattern))>>),
    Column("CTD Depth [m]", <<DecimalValidation, Or(InRangeValidation(Dec(0, 0), Dec(6000, 0)), MatchesPatternValidation(FillPattern))>>),
    Column("CTD Latitude [deg]", <<DecimalValidation, Or(InRangeValidation(Dec(-90, 0), Dec(90, 0)), MatchesPatternValidation(FillPattern))>>),
    Column("CTD Longitude [deg]", <<DecimalValidation, Or(InRangeValidation(Dec(-180, 0), Dec(180, 0)), MatchesPatternValidation(FillPattern))>>),
    Column("CTD Temperature 1 [deg C]", <<DecimalValidation, Or(InRangeValidation(Dec(0, 0), Dec(35, 0)), MatchesPatternValidation(FillPattern))>>),
    Column("CTD Temperature 1 Flag", <<LengthValidation, Or(MatchesPatternValidation(FlagPattern), MatchesPatternValidation(FillPattern))>>),
    Column("CTD Temperature 2 [deg C]", <<DecimalValidation, Or(InRangeValidation(Dec(0, 0), Dec(35, 0)), MatchesPatternValidation(FillPattern))>>),
    Column("CTD Temperature 2 Flag", <<LengthValidation, Or(MatchesPatternValidation(FlagPattern), MatchesPatternValidation(FillPattern))>>),
    Column("CTD Conductivity 1 [S/m]", <<DecimalValidation, Or(InRangeValidation(Dec(0, 0), Dec(6, 0)), MatchesPatternValidation(FillPattern))>>),
    Column("CTD Conductivity 1 Flag", <<LengthValidation, Or(MatchesPatternValidation(FlagPattern), MatchesPatternValidation(FillPattern))>>),
    Column("CTD Conductivity 2 [S/m]", <<DecimalValidation, Or(InRangeValidation(Dec(0, 0), Dec(6, 0)), MatchesPatternValidation(FillPattern))>>),
    Column("CTD Conductivity 2 Flag", <<LengthValidation, Or(MatchesPatternValidation(FlagPattern), MatchesPatternValidation(FillPattern))>>),
    Column("CTD Salinity 1 [psu]", <<DecimalValidation, Or(InRangeValidation(Dec(31, 0), Dec(37, 0)), MatchesPatternValidation(FillPattern))>>),
    Column("CTD Salinity 2 [psu]", <<DecimalValidation, Or(InRangeValidation(Dec(31, 0), Dec(37, 0)), MatchesPatternValidation(FillPattern))>>),
    Column("CTD Oxygen [mL/L]", <<DecimalValidation, Or(InRangeValidation(Dec(0, 0), Dec(9, 0)), MatchesPatternValidation(FillPattern))>>),
    Column("CTD Oxygen Flag", <<LengthValidation, Or(MatchesPatternValidation(FlagPattern), MatchesPatternValidation(FillPattern))>>),
    Column("CTD Oxygen Saturation [mL/L]", <<DecimalValidation, Or(InRangeValidation(Dec(4, 0), Dec(9, 0)), MatchesPatternValidation(FillPattern))>>),
    Column("CTD Fluorescence [mg/m^3]", <<DecimalValidation, Or(InRangeValidation(Dec(-1, 0), Dec(10, 0)), MatchesPatternValidation(FillPattern))>>),
    Column("CTD Fluorescence Flag", <<LengthValidation, Or(MatchesPatternValidation(FlagPattern), MatchesPatternValidation(FillPattern))>>),
    Column("CTD Beam Attenuation [1/m]", <<DecimalValidation, Or(InRangeValidation(Dec(-1, 1), Dec(1, 0)), MatchesPatternValidation(FillPattern))>>),
    Column("CTD Beam Transmission [%]", <<DecimalValidation, Or(InRangeValidation(Dec(-1, 0), Dec(101, 0)), MatchesPatternValidation(FillPattern))>>),
    Column("CTD Transmissometer Flag", <<LengthValidation, Or(MatchesPatternValidation(FlagPattern), MatchesPatternValidation(FillPattern))>>),
    Column("CTD pH", <<MatchesPatternValidation(FillPattern)>>),
    Column("CTD pH Flag", <<MatchesPatternValidation(FillPattern)>>),
    Column("Discrete Oxygen [mL/L]", <<DecimalValidation, Or(InRangeValidation(Dec(0, 0), Dec(9, 0)), MatchesPatternValidation(FillPattern))>>),
    Column("Discrete Oxygen Flag", <<LengthValidation, Or(MatchesPatternValidation(FlagPattern), MatchesPatternValidation(FillPattern))>>),
    Column("Discrete Oxygen Replicate Flag", <<LengthValidation, Or(MatchesPatternValidation(FlagPattern), MatchesPatternValidation(FillPattern))>>),
    Column("Discrete Chlorophyll [ug/L]", <<Or(Or(And(DecimalValidation, InRangeValidation(Dec(0, 0), Dec(10, 0))), MatchesPatternValidation(FillPattern)), MatchesPatternValidation(RatioPattern))>>),
    Column("Discrete Phaeopigment [ug/L]", <<Or(Or(And(DecimalValidation, InRangeValidation(Dec(0, 0), Dec(10, 0))), MatchesPatternValidation(FillPattern)), MatchesPatternValidation(RatioPattern))>>),
    Column("Discrete Fo/Fa Ratio", <<MatchesPatternValidation(FillPattern)>>),
    Column("Discrete Fluorescence Flag", <<LengthValidation, Or(MatchesPatternValidation(FlagPattern), MatchesPatternValidation(FillPattern))>>),
    Column("Discrete Fluorescence Replicate Flag", <<LengthValidation, Or(MatchesPatternValidation(FlagPattern), MatchesPatternValidation(FillPattern))>>),
    Column("Discrete Phosphate [uM]", <<Or(Or(InRangeValidation(Dec(0, 0), Dec(5, 0)), MatchesPatternValidation(BelowDetectionPattern)), MatchesPatternValidation(FillPattern))>>),
    Column("Discrete Silicate [uM]", <<Or(Or(InRangeValidation(Dec(0, 0), Dec(150, 0)), MatchesPatternValidation(BelowDetectionPattern)), MatchesPatternValidation(FillPattern))>>),
    Column("Discrete Nitrate [uM]", <<Or(Or(InRangeValidation(Dec(0, 0), Dec(50, 0)), MatchesPatternValidation(BelowDetectionPattern)), MatchesPatternValidation(FillPattern))>>),
    Column("Discrete Nitrite [uM]", <<Or(Or(InRangeValidation(Dec(0, 0), Dec(10, 0)), MatchesPatternValidation(BelowDetectionPattern)), MatchesPatternValidation(FillPattern))>>),
    Column("Discrete Ammonium [uM]", <<Or(Or(InRangeValidation(Dec(0, 0), Dec(10, 0)), MatchesPatternValidation(BelowDetectionPattern)), MatchesPatternValidation(FillPattern))>>),
    Column("Discrete Nutrients Flag", <<LengthValidation, Or(MatchesPatternValidation(FlagPattern), MatchesPatternValidation(FillPattern))>>),
    Column("Discrete Nutrients Replicate Flag", <<LengthValidation, Or(MatchesPatternValidation(FlagPattern), MatchesPatternValidation(FillPattern))>>),
    Column("Discrete Salinity [psu]", <<Or(InRangeValidation(Dec(31, 0), Dec(37, 0)), MatchesPatternValidation(FillPattern))>>),
    Column("Discrete Salinity Flag", <<LengthValidation, Or(MatchesPatternValidation(FlagPattern), MatchesPatternValidation(FillPattern))>>),
    Column("Discrete Salinity Replicate Flag", <<LengthValidation, Or(MatchesPatternValidation(FlagPattern), MatchesPatternValidation(FillPattern))>>),
    Column("Discrete Alkalinity [umol/kg]", <<Or(InRangeValidation(Dec(2100, 0), Dec(2450, 0)), MatchesPatternValidation(FillPattern))>>),
    Column("Discrete Alkalinity Flag", <<LengthValidation, Or(MatchesPatternValidation(FlagPattern), MatchesPatternValidation(FillPattern))>>),
    Column("Discrete Alkalinity Replicate Flag", <<LengthValidation, Or(MatchesPatternValidation(FlagPattern), MatchesPatternValidation(FillPattern))>>),
    Column("Discrete DIC [umol/kg]", <<Or(InRangeValidation(Dec(1900, 0), Dec(2450, 0)), MatchesPatternValidation(FillPattern))>>),
    Column("Discrete DIC Flag", <<LengthValidation, Or(MatchesPatternValidation(FlagPattern), MatchesPatternValidation(FillPattern))>>),
    Column("Discrete DIC Replicate Flag", <<LengthValidation, Or(MatchesPatternValidation(FlagPattern), MatchesPatternValidation(FillPattern))>>),
    Column("Discrete pCO2 [uatm]", <<Or(InRangeValidation(Dec(200, 0), Dec(1200, 0)), MatchesPatternValidation(FillPattern))>>),
    Column("pCO2 Analysis Temp [deg C]", <<DecimalValidation, Or(InRangeValidation(Dec(20, 0), Dec(26, 0)), MatchesPatternValidation(FillPattern))>>),
    Column("Discrete pCO2 Flag", <<LengthValidation, Or(MatchesPatternValidation(FlagPattern), MatchesPatternValidation(FillPattern))>>),
    Column("Discrete pCO2 Replicate Flag", <<LengthValidation, Or(MatchesPatternValidation(FlagPattern), MatchesPatternValidation(FillPattern))>>),
    Column("Discrete pH [Total scale]", <<Or(InRangeValidation(Dec(7, 0), Dec(9, 0)), MatchesPatternValidation(FillPattern))>>),
    Column("pH Analysis Temp [deg C]", <<DecimalValidation, Or(InRangeValidation(Dec(24, 0), Dec(26, 0)), MatchesPatternValidation(FillPattern))>>),
    Column("Discrete pH Flag", <<LengthValidation, Or(MatchesPatternValidation(FlagPattern), MatchesPatternValidation(FillPattern))>>),
    Column("Discrete pH Replicate Flag", <<LengthValidation, Or(MatchesPatternValidation(FlagPattern), MatchesPatternValidation(FillPattern))>>),
    Column("Calculated Alkalinity [umol/kg]", <<MatchesPatternValidation(FillPattern)>>),
    Column("Calculated DIC [umol/kg]", <<MatchesPatternValidation(FillPattern)>>),
    Column("Calculated pCO2 [uatm]", <<MatchesPatternValidation(FillPattern)>>),
    Column("Calculated pH", <<MatchesPatternValidation(FillPattern)>>),
    Column("Calculated CO2aq [umol/kg]", <<MatchesPatternValidation(FillPattern)>>),
    Column("Calculated Bicarb [umol/kg]", <<MatchesPatternValidation(FillPattern)>>),
    Column("Calculated CO3 [umol/kg]", <<MatchesPatternValidation(FillPattern)>>),
    Column("Calculated Omega-C", <<MatchesPatternValidation(FillPattern)>>),
    Column("Calculated Omega-A", <<MatchesPatternValidation(FillPattern)>>)
>>

metadata_schema == <<
    Column("Cruise", <<IsSameValidation>>),
    Column("Station", <<IsSameValidation>>),
    Column("Target Asset", <<IsSameValidation>>),
    Column("Start Latitude [degrees]", <<IsSameValidation>>),
    Column("Start Longitude [degrees]", <<IsSameValidation>>),
    Column("Start Time [UTC]", <<IsSameValidation>>),
    Column("Cast", <<IsSameValidation>>),
    Column("Bottom Depth at Start Position [m]", <<IsSameValidation>>),
    Column("CTD File", <<IsSameValidation>>)
>>

---------------------------------------------------------------------------
(* Validation of one column: Column.validate(series), the errors of each   *)
(* validation of the column's list in turn.  The columns drawn hold one    *)
(* cell, any of CellsFor, or several rows of one of the SampleCells.       *)

\* Bounds of the cells drawn: the longest exhaustively drawn str, the
\* longest run of one bit in a flag-like str, the most rows of a column.
MaxShort == 2
MaxRun == 17
MaxColumnRows == 2

\* The columns of the schema whose name ends in "Flag".
FlagNames ==
    {"Cast Flag",
     "CTD File Flag",
     "Niskin Flag",
     "CTD Pressure Flag",
     "CTD Temperature 1 Flag",
     "CTD Temperature 2 Flag",
     "CTD Conductivity 1 Flag",
     "CTD Conductivity 2 Flag",
     "CTD Oxygen Flag",
     "CTD Fluorescence Flag",
     "CTD Transmissometer Flag",
     "CTD pH Flag",
     "Discrete Oxygen Flag",
     "Discrete Oxygen Replicate Flag",
     "Discrete Fluorescence Flag",
     "Discrete Fluorescence Replicate Flag",
     "Discrete Nutrients Flag",
     "Discrete Nutrients Replicate Flag",
     "Discrete Salinity Flag",
     "Discrete Salinity Replicate Flag",
     "Discrete Alkalinity Flag",
     "Discrete Alkalinity Replicate Flag",
     "Discrete DIC Flag",
     "Discrete DIC Replicate Flag",
     "Discrete pCO2 Flag",
     "Discrete pCO2 Replicate Flag",
     "Discrete pH Flag",
     "Discrete pH Replicate Flag"}
FillOnly == <<MatchesPatternValidation(FillPattern)>>

RECURSIVE Edges(_)
\* The bounds of the InRangeValidations inside a validation.
Edges(v) ==
    IF v.v = "range" THEN {v.lo, v.hi}
    ELSE IF v.v \in {"or", "and"} THEN Edges(v.kids[1]) \cup Edges(v.kids[2])
    ELSE {}
\* The bounds of the InRangeValidations of a column.
ColumnEdges(c) ==
    UNION {Edges(schema[c].validations[j]) : j \in DOMAIN schema[c].validations}

RECURSIVE Run(_, _)
Run(c, n) == IF n <= 0 THEN << >> ELSE <<c>> \o Run(c, n - 1)

\* Numbers on and just beside (by 0.0001) a bound, as int and as float.
EdgeCells(b) ==
    (IF b.e = 0 THEN {IntCell(b.m), FloatCell(b.m, 0)} ELSE {FloatCell(b.m, b.e)})
    \cup {FloatCell(b.m * Pow10(4 - b.e) + d, 4) : d \in {-1, 1}}
\* The numbers drawn for a column: those at its own bounds and at 0 and
\* 35, and 3, 3.14 and the fill value as a number.
NumberCells(c) ==
    UNION {EdgeCells(b) : b \in ColumnEdges(c) \cup {Dec(0, 0), Dec(35, 0)}}
    \cup {IntCell(3), FloatCell(314, 2), IntCell(-9999999)}
\* The same numbers written as text.
NumberStrings(c) == {StrCell(PyStr(x)) : x \in NumberCells(c)}
ShortAlphabet == {"*", "0", "-", "."}
ShortStrings == {StrCell(s) : s \in SeqsUpTo(ShortAlphabet, MaxShort) \ {<< >>}}
ADate == <<"2", "0", "2", "3", "-", "0", "8", "-", "1", "5", "T", "1", "2", ":",
           "3", "4", ":", "5", "6", ".", "0", "0", "0", "Z">>
SampleCells ==
    {StrCell(Fill), StrCell(ADate), StrCell(<<"a", ".", "h", "e", "x">>),
     StrCell(<<"<", "0", ".", "0", "5">>), StrCell(<<"1", "2", "/", "3", "4">>),
     StrCell(cruise_names[1]), StrCell(<<"x">>), NaNCell}
\* Flag-like text: a prefix, a run of one bit, possibly one more character.
FlagPrefixes == {<< >>, <<"*">>, <<"*", "0">>, <<"*", "1">>, Fill}
FlagLikeCells ==
    {StrCell(pre \o Run(c, n) \o suf) :
        pre \in FlagPrefixes, c \in {"0", "1"}, n \in 0..MaxRun, suf \in {<< >>, <<"x">>}}
    \ {StrCell(<< >>)}
CellsFor(c) ==
    ShortStrings \cup NumberCells(c) \cup NumberStrings(c) \cup SampleCells
    \cup (IF schema[c].name \in FlagNames THEN FlagLikeCells ELSE {})

\* ValidationWarning(message, value, row, column); the message stands for
\* the validation, named here by its place in the column's list.
ValidationWarning(column, row, validation, value) ==
    [column |-> column, row |-> row, validation |-> validation, value |-> value]

\* The row labels of a table as read: 0, 1, ...
RangeIndex(n) == [i \in 1..n |-> i - 1]

\* get_errors: a warning for every row whose element fails, in row order,
\* each with the row's label.
GetErrors(column, j, index, values, ok) ==
    LET all == [i \in DOMAIN values |->
                   [w |-> ValidationWarning(column, index[i], j, values[i]), ok |-> ok[i]]]
        bad == SelectSeq(all, LAMBDA x : ~x.ok)
    IN [i \in DOMAIN bad |-> bad[i].w]

InitColumn ==
    /\ stage = "column"
    /\ ci \in DOMAIN schema
    /\ \/ \E cell \in CellsFor(ci) : series = <<cell>>
       \/ \E cell \in SampleCells, n \in 2..MaxColumnRows : series = [i \in 1..n |-> cell]
    /\ vi = 1
    /\ errors = << >>
    /\ raised = FALSE
    /\ HeaderRests
    /\ TableRests
    /\ GroupRests

\* One validation of the column's list is applied to the whole series.
ColumnStep ==
    /\ stage = "column"
    /\ ~raised
    /\ vi <= Len(schema[ci].validations)
    /\ LET r == Validate(schema[ci].validations[vi], series)
       IN IF r.raised
          THEN raised' = TRUE /\ UNCHANGED <<vi, errors>>
          ELSE /\ errors' = errors \o GetErrors(schema[ci].name, vi,
                                                 RangeIndex(Len(series)), series, r.ok)
               /\ vi' = vi + 1
               /\ UNCHANGED raised
    /\ UNCHANGED <<stage, ci, series>>
    /\ UNCHANGED <<headerVars, tableVars, groupVars>>

ColumnDone == stage = "column" /\ ~raised /\ vi > Len(schema[ci].validations)

SpecColumn == InitColumn /\ [][ColumnStep]_vars

---------------------------------------------------------------------------
(* is_same on one column (notebook lines 172-175)                          *)

\* The longest column is_same is applied to, and the values it holds.
MaxModeRows == 3
ModeNumbers == {IntCell(1), IntCell(2), IntCell(3)}
ModeTexts == {StrCell(<<"a">>), StrCell(<<"b">>), StrCell(<<"c">>)}

\* A column of numbers or a column of texts, blank cells among them; the
\* empty column is what the station loop selects for a blank station.
InitIsSame ==
    /\ stage = "is_same"
    /\ \/ series \in SeqsUpTo(ModeNumbers \cup {NaNCell}, MaxModeRows)
       \/ series \in SeqsUpTo(ModeTexts \cup {NaNCell}, MaxModeRows)
    /\ ci = 0
    /\ vi = 1
    /\ errors = << >>
    /\ raised = FALSE
    /\ HeaderRests
    /\ TableRests
    /\ GroupRests

\* IsSameValidation applied to the column: its warnings, or the exception
\* of is_same.
IsSameStep ==
    /\ stage = "is_same"
    /\ ~raised
    /\ vi = 1
    /\ LET r == Validate(IsSameValidation, series)
       IN IF r.raised
          THEN raised' = TRUE /\ UNCHANGED <<vi, errors>>
          ELSE /\ errors' = GetErrors("", 1, RangeIndex(Len(series)), series, r.ok)
               /\ vi' = 2
               /\ UNCHANGED raised
    /\ UNCHANGED <<stage, ci, series>>
    /\ UNCHANGED <<headerVars, tableVars, groupVars>>

IsSameDone == stage = "is_same" /\ ~raised /\ vi = 2

SpecIsSame == InitIsSame /\ [][IsSameStep]_vars

---------------------------------------------------------------------------
(* Schema.validate on a table (notebook line 341 and lines 421-431)        *)

\* The warnings of Schema.validate that are about the table, not a cell:
\* "Invalid number of columns" and "The column ... exists in the schema
\* but not in the data frame"; they carry row -1 and no column.
InvalidNumberOfColumns == ValidationWarning("", -1, 0, NaNCell)
ColumnNotInFrame == ValidationWarning("", -1, -1, NaNCell)

\* The result of a validate() call: raised, or the list of warnings.
Failed == [raised |-> TRUE, errors |-> << >>]
Returned(errs) == [raised |-> FALSE, errors |-> errs]

\* The outcome of one validation of a column: its warnings, or raised.
Warnings(column, j, index, vals, r) ==
    IF r.raised THEN Failed ELSE Returned(GetErrors(column.name, j, index, vals, r.ok))

\* Two outcomes one after the other: the warnings of both in order, or
\* raised when one of them raised.
Merge(a, b) ==
    IF a.raised \/ b.raised THEN Failed ELSE Returned(a.errors \o b.errors)

RECURSIVE Chain(_, _, _)
\* The outcomes lo..hi of a loop, one after the other.
Chain(outcomes, lo, hi) ==
    IF lo > hi THEN Returned(<< >>)
    ELSE IF lo = hi THEN outcomes[lo]
    ELSE Merge(Chain(outcomes, lo, (lo + hi) \div 2),
               Chain(outcomes, ((lo + hi) \div 2) + 1, hi))
Collected(outcomes) == Chain(outcomes, 1, Len(outcomes))

\* Column.validate: the warnings of the column's validations, one
\* validation after the other; an exception of one of them leaves it.
ColumnValidate(column, index, vals) ==
    Collected([j \in DOMAIN column.validations |->
                  Warnings(column, j, index, vals, Validate(column.validations[j], vals))])

\* The loop of Schema.validate over the columns of the schema.
ColumnsValidate(sch, df) ==
    Collected([c \in DOMAIN sch |-> ColumnValidate(sch[c], df.index, df.data[sch[c].name])])

RECURSIVE SortedFrom(_, _, _)
\* sorted(errors, key=lambda e: e.row): by row label from lo to hi, the
\* warnings of one row in the order they were collected.
SortedFrom(errs, lo, hi) ==
    IF lo > hi THEN << >>
    ELSE SelectSeq(errs, LAMBDA e : e.row = lo) \o SortedFrom(errs, lo + 1, hi)
LastLabel(index) ==
    IF index = << >> THEN -1 ELSE CHOOSE m \in Range(index) : \A x \in Range(index) : x <= m
\* A plausible slip: the warnings are returned as collected, column by
\* column, without the sort.
SortedByRowOmitted(errs, df) == errs
SortedByRow(errs, df) == SortedFrom(errs, -1, LastLabel(df.index))
Sorted(r, df) == IF r.raised THEN Failed ELSE Returned(SortedByRow(r.errors, df))

\* Schema.validate(df): one warning and no more when the table has not
\* the schema's number of columns or lacks one of its columns; else the
\* warnings of every column, sorted by row.
SchemaValidate(sch, df) ==
    IF Len(df.columns) # Len(sch) THEN Returned(<<InvalidNumberOfColumns>>)
    ELSE IF \E c \in DOMAIN sch : sch[c].name \notin Range(df.columns)
         THEN Returned(<<ColumnNotInFrame>>)
         ELSE Sorted(ColumnsValidate(sch, df), df)

---------------------------------------------------------------------------
(* The validation of the summary sheet (notebook line 341)                 *)

\* The most rows of a summary sheet drawn, and the most runs of the cell
\* that validates it.
MaxTableRows == 2
MaxRuns == 2

SchemaNames == [c \in DOMAIN schema |-> schema[c].name]

\* A cell every validation of the column passes: the fill value, and in
\* the columns that have no fill branch a value of the column's kind.
TypicalCell(name) ==
    CASE name = "Station" -> IntCell(5)
      [] name = "Target Asset" -> StrCell(<<"a">>)
      [] name = "Start Latitude [degrees]" -> IntCell(40)
      [] name = "Start Longitude [degrees]" -> IntCell(-70)
      [] name = "Start Time [UTC]" -> StrCell(ADate)
      [] name = "Cast" -> IntCell(1)
      [] OTHER -> StrCell(Fill)

\* The columns in which a row may hold a cell the column's validations do
\* not take, and that cell: "x" is no integer; "*0" is no flag and has not
\* a flag's length; "<0.05" is the text of a value below the detection
\* limit.
OddColumns == {"Station", "CTD File Flag", "Discrete Phosphate [uM]"}
OddCell(name) ==
    CASE name = "Station" -> StrCell(<<"x">>)
      [] name = "CTD File Flag" -> StrCell(<<"*", "0">>)
      [] OTHER -> StrCell(<<"<", "0", ".", "0", "5">>)

\* The header of the sheet: as the schema has it, or with the last column
\* missing, or with the last column under another name.
SheetHeaders ==
    {SchemaNames,
     SubSeq(SchemaNames, 1, Len(SchemaNames) - 1),
     [SchemaNames EXCEPT ![Len(SchemaNames)] = "Unnamed"]}

InitValidate ==
    /\ stage = "validate"
    /\ \E h \in SheetHeaders, n \in 1..MaxTableRows :
          \E odd \in [OddColumns -> SUBSET (1..n)] :
              \* a sheet with another header is drawn with typical cells only
              /\ h = SchemaNames \/ \A name \in OddColumns : odd[name] = {}
              \* the below-detection text is drawn in the first row only:
              \* its column is converted as a whole
              /\ odd["Discrete Phosphate [uM]"] \subseteq {1}
              /\ summary_sheet =
                  DataFrame(h, RangeIndex(n),
                      [name \in Range(h) |->
                          [i \in 1..n |->
                              IF name \in OddColumns /\ i \in odd[name]
                              THEN OddCell(name)
                              ELSE TypicalCell(name)]])
    /\ errors = << >>
    /\ raised = FALSE
    /\ ci = 0
    /\ series = << >>
    /\ vi = 0
    /\ history = << >>
    /\ HeaderRests
    /\ GroupRests

\* errors = schema.validate(summary_sheet); the next cell reports them.
SchemaValidateStep ==
    /\ stage = "validate"
    /\ ~raised
    /\ history = << >>
    /\ \E r \in {SchemaValidate(schema, summary_sheet)} :
          /\ history' = <<r>>
          /\ IF r.raised
             THEN raised' = TRUE /\ UNCHANGED <<stage, errors>>
             ELSE errors' = r.errors /\ stage' = "report" /\ UNCHANGED raised
    /\ UNCHANGED <<ci, series, vi, summary_sheet>>
    /\ UNCHANGED <<headerVars, groupVars>>

\* The cell is run again on the same table, after it returned or raised:
\* errors is bound anew when validate() returns and keeps its list when
\* validate() raises.
SchemaValidateAgain ==
    /\ stage = "report" \/ (stage = "validate" /\ raised)
    /\ Len(history) < MaxRuns
    /\ \E r \in {SchemaValidate(schema, summary_sheet)} :
          /\ history' = Append(history, r)
          /\ IF r.raised
             THEN raised' = TRUE /\ stage' = "validate" /\ UNCHANGED errors
             ELSE errors' = r.errors /\ stage' = "report" /\ raised' = FALSE
    /\ UNCHANGED <<ci, series, vi, summary_sheet>>
    /\ UNCHANGED <<headerVars, groupVars>>

NextValidate == SchemaValidateStep \/ SchemaValidateAgain

SpecValidate == InitValidate /\ [][NextValidate]_vars

---------------------------------------------------------------------------
(* The station-by-station validation of the metadata (lines 374-431)       *)

\* The most rows of a metadata table drawn.
MaxMetadataRows == 3

metadata_columns == <<"Cruise", "Station", "Target Asset", "Start Latitude [degrees]",
                      "Start Longitude [degrees]", "Start Time [UTC]", "Cast",
                      "Bottom Depth at Start Position [m]", "CTD File">>

\* The rows drawn: cruise, station and target asset vary and may be blank,
\* the other metadata columns hold the same value in every row.
MetadataRow(cruise, station, asset) ==
    [name \in Range(metadata_columns) |->
        CASE name = "Cruise" -> cruise
          [] name = "Station" -> station
          [] name = "Target Asset" -> asset
          [] name = "Bottom Depth at Start Position [m]" -> IntCell(100)
          [] name = "CTD File" -> StrCell(<<"a", ".", "h", "e", "x">>)
          [] OTHER -> TypicalCell(name)]
MetadataRows ==
    LET c1 == StrCell(cruise_names[1])
        c2 == StrCell(cruise_names[2])
        a == StrCell(<<"a">>)
        b == StrCell(<<"b">>)
    IN {MetadataRow(c1, IntCell(5), a), MetadataRow(c1, IntCell(5), b),
        MetadataRow(c1, IntCell(5), NaNCell), MetadataRow(c1, IntCell(6), a),
        MetadataRow(c2, IntCell(5), a), MetadataRow(c2, IntCell(5), b),
        MetadataRow(NaNCell, IntCell(5), a), MetadataRow(c1, NaNCell, a)}

\* Series.unique(): the values in order of first appearance, the blank
\* cell once.
Same(a, b) == (a.k = "nan" /\ b.k = "nan") \/ CellEq(a, b)
Unique(vals) ==
    LET first == SelectSeq([i \in DOMAIN vals |-> i],
                           LAMBDA i : \A j \in 1..(i - 1) : ~Same(vals[j], vals[i]))
    IN [i \in DOMAIN first |-> vals[first[i]]]

\* df[df[name] == value]: the rows whose cell equals the value, with
\* their labels; no cell equals the blank value.
Select(df, name, value) ==
    LET pos == SelectSeq([i \in DOMAIN df.index |-> i],
                         LAMBDA i : CellEq(df.data[name][i], value))
    IN DataFrame(df.columns,
                 [i \in DOMAIN pos |-> df.index[pos[i]]],
                 [n \in DOMAIN df.data |-> [i \in DOMAIN pos |-> df.data[n][pos[i]]]])

InitMetadata ==
    /\ stage = "metadata"
    /\ \E rows \in SeqsUpTo(MetadataRows, MaxMetadataRows) :
          /\ rows # << >>
          /\ metadata = DataFrame(metadata_columns, RangeIndex(Len(rows)),
                            [name \in Range(metadata_columns) |->
                                [i \in DOMAIN rows |-> rows[i][name]]])
    /\ cruises = Unique(metadata.data["Cruise"])
    /\ cruise_data = NoFrame
    /\ stations = << >>
    /\ leaf_groups = << >>
    /\ printed = << >>
    /\ raised = FALSE
    /\ column_headers = << >> /\ columns = << >> /\ k = 0
    /\ ci = 0 /\ series = << >> /\ vi = 0 /\ errors = << >>
    /\ TableRests

\* for cruise in metadata["Cruise"].unique(): the rows of the next cruise
\* and the stations among them.
CruiseStep ==
    /\ stage = "metadata"
    /\ ~raised
    /\ stations = << >>
    /\ cruises # << >>
    /\ cruise_data' = Select(metadata, "Cruise", Head(cruises))
    /\ stations' = Unique(cruise_data'.data["Station"])
    /\ cruises' = Tail(cruises)
    /\ UNCHANGED <<stage, metadata, printed, raised, leaf_groups>>
    /\ UNCHANGED <<column_headers, columns, k, columnVars, tableVars>>

\* for station in cruise_data["Station"].unique(): the rows of the next
\* station are validated and the warnings printed.
StationStep ==
    /\ stage = "metadata"
    /\ ~raised
    /\ stations # << >>
    /\ LET station_data == Select(cruise_data, "Station", Head(stations))
           merrors == SchemaValidate(metadata_schema, station_data)
       IN /\ leaf_groups' = Append(leaf_groups, station_data.index)
          /\ IF merrors.raised
             THEN raised' = TRUE /\ UNCHANGED <<printed, stations>>
             ELSE /\ printed' = printed \o merrors.errors
                  /\ stations' = Tail(stations)
                  /\ UNCHANGED raised
    /\ UNCHANGED <<stage, metadata, cruises, cruise_data>>
    /\ UNCHANGED <<column_headers, columns, k, ci, series, vi, errors, tableVars>>

MetadataDone == stage = "metadata" /\ ~raised /\ cruises = << >> /\ stations = << >>

NextMetadata == CruiseStep \/ StationStep

SpecMetadata == InitMetadata /\ [][NextMetadata]_vars

---------------------------------------------------------------------------
(* Column headers (notebook lines 82-96)                                   *)

\* Header names of the model and the longest header sequences drawn.
Names == {"A", "B", "C", "D"}
MaxExpected == 3
MaxActual == 4

\* tuple.index(x): the 0-based position of the first occurrence.
IndexOf(t, x) == (CHOOSE i \in DOMAIN t : t[i] = x /\ \A j \in 1..(i-1) : t[j] # x) - 1

Line(kind, column, pos, ind, want) ==
    [kind |-> kind, column |-> column, pos |-> pos, ind |-> ind, want |-> want]

\* A plausible slip: the out-of-range position is tested after the lookup,
\* so a known name beyond the expected length is reported as a move.
HeaderLineLookupFirst(column, pos, headers) ==
    IF column \in Range(headers)
    THEN IF pos < Len(headers) /\ column = headers[pos + 1]
         THEN << >>
         ELSE <<Line("move", column, pos, IndexOf(headers, column), "")>>
    ELSE IF pos >= Len(headers)
         THEN <<Line("delete", column, pos, -1, "")>>
         ELSE <<Line("unknown", column, pos, -1, headers[pos + 1])>>

\* A plausible slip: the move reports the expected name's position in the
\* actual-side sense, i.e. source and target positions exchanged.
HeaderLineSwapped(column, pos, headers) ==
    IF pos >= Len(headers)
    THEN <<Line("delete", column, pos, -1, "")>>
    ELSE IF column # headers[pos + 1]
         THEN IF column \in Range(headers)
              THEN <<Line("move", column, IndexOf(headers, column), pos, "")>>
              ELSE <<Line("unknown", column, pos, -1, headers[pos + 1])>>
         ELSE << >>

\* A plausible slip: the handler of IndexError passes, so a column beyond
\* the end of the expected headers is not reported.
HeaderLineSilentPastEnd(column, pos, headers) ==
    IF pos >= Len(headers)
    THEN << >>
    ELSE IF column # headers[pos + 1]
         THEN IF column \in Range(headers)
              THEN <<Line("move", column, pos, IndexOf(headers, column), "")>>
              ELSE <<Line("unknown", column, pos, -1, headers[pos + 1])>>
         ELSE << >>

\* One pass of the loop body: what is printed for `column` at position pos.
\* column_headers[k] raises IndexError for k >= len, caught by the except.
HeaderLine(column, pos, headers) ==
    IF pos >= Len(headers)
    THEN <<Line("delete", column, pos, -1, "")>>
    ELSE IF column # headers[pos + 1]
         THEN IF column \in Range(headers)
              THEN <<Line("move", column, pos, IndexOf(headers, column), "")>>
              ELSE <<Line("unknown", column, pos, -1, headers[pos + 1])>>
         ELSE << >>

\* pandas mangles repeated header names when it reads a file, so the
\* expected tuple holds no name twice.
ExpectedHeaders == {t \in SeqsUpTo(Names, MaxExpected) : IsInjective(t)}
ActualHeaders == SeqsUpTo(Names, MaxActual)

InitHeader ==
    /\ stage = "header"
    /\ column_headers \in ExpectedHeaders
    /\ columns \in ActualHeaders
    /\ k = 0
    /\ printed = << >>
    /\ ColumnRests
    /\ TableRests
    /\ GroupRests

HeaderStep ==
    /\ stage = "header"
    /\ k < Len(columns)
    /\ printed' = printed \o HeaderLine(columns[k + 1], k, column_headers)
    /\ k' = k + 1
    /\ UNCHANGED <<stage, column_headers, columns>>
    /\ UNCHANGED <<columnVars, tableVars, groupVars>>

HeaderDone == stage = "header" /\ k = Len(columns)

Init == InitHeader

Next == HeaderStep

Spec == Init /\ [][Next]_vars

---------------------------------------------------------------------------
(* Claims on the header check                                              *)

LinesAt(p) == {j \in DOMAIN printed : printed[j].pos = p}

\* What the claim prescribes for position p (0-based).
DeleteAt(p) ==
    \E j \in LinesAt(p) : printed[j] = Line("delete", columns[p + 1], p, -1, "")
MoveAt(p) ==
    \E j \in LinesAt(p), i \in 0..(Len(column_headers) - 1) :
        /\ column_headers[i + 1] = columns[p + 1]
        /\ printed[j] = Line("move", columns[p + 1], p, i, "")
UnknownAt(p) ==
    \E j \in LinesAt(p) :
        printed[j] = Line("unknown", columns[p + 1], p, -1, column_headers[p + 1])

\* C1: the header loop scans the actual columns once, left to right, and
\* each scanned position k has exactly one outcome: nothing when
\* actual[k] = expected[k]; "move from k to i" (i the index of actual[k] in
\* expected) when it differs but occurs in expected; "not an accepted
\* header, should be expected[k]" when it occurs nowhere in expected;
\* "delete" for every k at or beyond the length of expected.  Nothing else
\* is printed.
C1_HeaderOutcomes ==
    stage = "header" =>
        /\ \A j \in DOMAIN printed : printed[j].pos \in 0..(k - 1)
        /\ \A i, j \in DOMAIN printed : i < j => printed[i].pos < printed[j].pos
        /\ \A p \in 0..(k - 1) :
              IF p >= Len(column_headers)
              THEN Cardinality(LinesAt(p)) = 1 /\ DeleteAt(p)
              ELSE IF columns[p + 1] = column_headers[p + 1]
                   THEN LinesAt(p) = {}
                   ELSE IF columns[p + 1] \in Range(column_headers)
                        THEN Cardinality(LinesAt(p)) = 1 /\ MoveAt(p)
                        ELSE Cardinality(LinesAt(p)) = 1 /\ UnknownAt(p)

\* A finished scan in which all four outcomes occurred.
C1_Witness ==
    /\ HeaderDone
    /\ \E p \in 0..(k - 1) : p < Len(column_headers) /\ LinesAt(p) = {}
    /\ \E j \in DOMAIN printed : printed[j].kind = "move"
    /\ \E j \in DOMAIN printed : printed[j].kind = "unknown"
    /\ \E j \in DOMAIN printed :
          printed[j].kind = "delete" /\ printed[j].column \in Range(column_headers)

SwapCase ==
    /\ HeaderDone
    /\ column_headers = <<"A", "B", "C">>
    /\ columns = <<"A", "C", "B">>

\* C2 as stated: for expected [A, B, C] and actual [A, C, B] the loop
\* reports exactly two misplacements, B from position 1 to 2 and C from
\* position 2 to 1.
C2_AsStated ==
    SwapCase =>
        /\ Len(printed) = 2
        /\ Range(printed) = {Line("move", "B", 1, 2, ""), Line("move", "C", 2, 1, "")}

\* C2 amended: for expected [A, B, C] and actual [A, C, B] the loop reports
\* exactly two misplacements, in scan order: C, found at position 1, to
\* position 2, then B, found at position 2, to position 1.
C2_SwapReports ==
    SwapCase =>
        printed = <<Line("move", "C", 1, 2, ""), Line("move", "B", 2, 1, "")>>

C2_Witness == SwapCase /\ Len(printed) = 2

---------------------------------------------------------------------------
(* Claims on the validation of one column                                  *)

ColumnName == schema[ci].name
Validations == schema[ci].validations
\* A warning of the j-th validation of the column has been collected.
ErrFrom(j) == \E i \in DOMAIN errors : errors[i].validation = j
AllCells(x) == series # << >> /\ \A i \in DOMAIN series : series[i] = x

IsFillMatch(v) == v.v = "pattern" /\ v.re = FillPattern
RECURSIVE HasFillBranch(_)
\* The validation is an OR one of whose branches matches the fill value.
HasFillBranch(v) ==
    /\ v.v = "or"
    /\ \E j \in 1..2 : IsFillMatch(v.kids[j]) \/ HasFillBranch(v.kids[j])
HasFillEscape(c) ==
    \E j \in DOMAIN schema[c].validations : HasFillBranch(schema[c].validations[j])

\* C3: fill-value escape.  For every column of the schema whose validation
\* list holds an OR with a branch on the fill value, a column whose every
\* cell is "-9999999" yields no error: every validation of the list, the
\* length, decimal and integer checks beside the OR included, passes it
\* (and none raises).
C3_FillEscape ==
    (stage = "column" /\ AllCells(StrCell(Fill)) /\ HasFillEscape(ci))
        => errors = << >> /\ ~raised

\* A flag column (length check and OR) validated to its end on two rows
\* of fill values.
C3_Witness ==
    /\ ColumnDone
    /\ HasFillEscape(ci)
    /\ AllCells(StrCell(Fill))
    /\ Len(series) = 2
    /\ Len(Validations) = 2
    /\ Validations[1] = LengthValidation

\* The text of a flag: "*" and then sixteen characters, each "0" or "1".
IsFlagText(s) ==
    /\ Len(s) = FlagBits + 1
    /\ s[1] = "*"
    /\ \A i \in 2..(FlagBits + 1) : s[i] \in {"0", "1"}
IsFlagColumn(c) == schema[c].name \in FlagNames /\ schema[c].validations # FillOnly

\* C4 as stated: in every flag column (name ending in "Flag", not
\* fill-only) a cell yields no validation error if and only if it is the
\* fill value "-9999999" or "*" followed by exactly 16 characters "0" or
\* "1"; "Cast Flag" and "CTD Pressure Flag" accept that same set.
C4_FlagValues ==
    (ColumnDone /\ IsFlagColumn(ci) /\ Len(series) = 1)
        => (errors = << >>
              <=> (PyStr(series[1]) = Fill \/ IsFlagText(PyStr(series[1]))))

IsNumber(cell) == ~ToNumeric(cell).err /\ ToNumeric(cell).v.t = "num"
InClosed(cell, lo, hi) == NumGE(ToNumeric(cell).v, lo) /\ NumGE(hi, ToNumeric(cell).v)

\* C5 as stated: RangeCheck(min, max) passes a value if and only if it
\* coerces to a number v with min <= v <= max, both bounds inclusive.
\* Here on "CTD Temperature 1 [deg C]", whose second validation is
\* RangeCheck(0, 35) or fill: 0 and 35 pass, -0.0001 and 35.0001 fail.
C5_RangeInclusive ==
    (/\ ColumnDone
     /\ ColumnName = "CTD Temperature 1 [deg C]"
     /\ Len(series) = 1
     /\ IsNumber(series[1])
     /\ ~Search(FillPattern, PyStr(series[1])))
        => (~ErrFrom(2) <=> InClosed(series[1], Dec(0, 0), Dec(35, 0)))

\* The cell denotes an integer: an int, a float without decimals, or text
\* of digits with an optional sign.
DenotesInteger(cell) ==
    CASE cell.k = "int" -> TRUE
      [] cell.k = "float" -> cell.e = 0
      [] cell.k = "str" ->
            LET d == IF cell.s[1] \in {"+", "-"} THEN Tail(cell.s) ELSE cell.s
            IN d # << >> /\ \A i \in DOMAIN d : d[i] \in DigitSet
      [] OTHER -> FALSE
\* The cell denotes a decimal number: a number, or text of digits with an
\* optional sign and an optional decimal point.
DenotesDecimal(cell) ==
    CASE cell.k \in {"int", "float"} -> TRUE
      [] cell.k = "str" ->
            LET d == IF cell.s[1] \in {"+", "-"} THEN Tail(cell.s) ELSE cell.s
                digits == SelectSeq(d, LAMBDA c : c # ".")
            IN /\ digits # << >>
               /\ \A i \in DOMAIN digits : digits[i] \in DigitSet
               /\ Len(d) - Len(digits) <= 1
      [] OTHER -> FALSE

\* C6 as stated: IntegerCheck passes a cell if and only if the cell
\* denotes a base-10 integer with optional sign, and DecimalCheck passes
\* every cell that denotes a decimal number: 3 passes both, 3.14 passes
\* DecimalCheck and fails IntegerCheck, held as text or as a number.
C6_IntegerAndDecimal ==
    (ColumnDone /\ Len(series) = 1)
        => \A j \in DOMAIN Validations :
              /\ Validations[j] = IntValidation
                    => (~ErrFrom(j) <=> DenotesInteger(series[1]))
              /\ (Validations[j] = DecimalValidation /\ DenotesDecimal(series[1]))
                    => ~ErrFrom(j)

IsBool(x) == x \in {"True", "False"}

---------------------------------------------------------------------------
(* Claims on is_same                                                       *)

NonNull(vals) == {vals[i] : i \in {j \in DOMAIN vals : vals[j].k # "nan"}}
\* x is a most frequent value of the column.
MostFrequent(x) ==
    /\ x \in NonNull(series)
    /\ \A y \in NonNull(series) : Count(series, y) <= Count(series, x)
\* The first row (1-based) that holds x.
FirstAt(x) ==
    CHOOSE i \in DOMAIN series :
        CellEq(series[i], x) /\ \A j \in 1..(i - 1) : ~CellEq(series[j], x)
\* The rows of the column pass exactly where they hold x, and each of the
\* other rows has one warning.
PassExactly(x) ==
    /\ \A i \in DOMAIN series :
          CellEq(series[i], x) <=> (\A h \in DOMAIN errors : errors[h].row # i - 1)
    /\ Len(errors) = Cardinality({i \in DOMAIN series : ~CellEq(series[i], x)})

---------------------------------------------------------------------------
(* Claims on the station-by-station validation                             *)

MetadataCell(i, name) == metadata.data[name][i]
NoBlankKey ==
    \A i \in DOMAIN metadata.index :
        MetadataCell(i, "Cruise").k # "nan" /\ MetadataCell(i, "Station").k # "nan"
\* The rows of the leaf group of row i, and the group's values in a column.
GroupOf(i) ==
    {j \in DOMAIN metadata.index :
        /\ CellEq(MetadataCell(j, "Cruise"), MetadataCell(i, "Cruise"))
        /\ CellEq(MetadataCell(j, "Station"), MetadataCell(i, "Station"))}
GroupColumn(i, name) ==
    LET pos == SelectSeq([j \in DOMAIN metadata.index |-> j], LAMBDA j : j \in GroupOf(i))
    IN [h \in DOMAIN pos |-> MetadataCell(pos[h], name)]
\* Row i differs from the most frequent value of its group in the column
\* (where the group has a value in the column at all).
Disagrees(i, name) ==
    /\ Modes(GroupColumn(i, name)) # {}
    /\ ~CellEq(MetadataCell(i, name), ModeFirst(GroupColumn(i, name)))
PrintedFor(i, name) ==
    Cardinality({h \in DOMAIN printed :
        printed[h].row = metadata.index[i] /\ printed[h].column = name})
MetadataEnded ==
    stage = "metadata" /\ (raised \/ (cruises = << >> /\ stations = << >>))

\* C9 as stated: on a table whose rows all have a cruise and a station,
\* the grouped validation ends having reported, for every leaf group and
\* every metadata column, exactly one error for each row of the group
\* whose value differs from the group's most frequent value, and nothing
\* else; a group that agrees on every column yields zero errors.
C9_GroupedModeErrors ==
    (MetadataEnded /\ NoBlankKey) =>
        /\ ~raised
        /\ \A i \in DOMAIN metadata.index : \A c \in DOMAIN metadata_schema :
              PrintedFor(i, metadata_schema[c].name)
                  = IF Disagrees(i, metadata_schema[c].name) THEN 1 ELSE 0

---------------------------------------------------------------------------
(* Claims on the validation of the summary sheet                           *)

WellFormed == summary_sheet.columns = SchemaNames
ValidateEnded == (stage = "validate" /\ raised) \/ stage = "report"
SheetCell(c, i) == summary_sheet.data[schema[c].name][i]
\* The j-th validation of column c fails on the cell of row i.
Fails(c, i, j) ==
    LET r == Validate(schema[c].validations[j], <<SheetCell(c, i)>>)
    IN ~r.raised /\ ~r.ok[1]
ErrorsFor(c, i, j) ==
    Cardinality({h \in DOMAIN errors :
        errors[h] = ValidationWarning(schema[c].name, summary_sheet.index[i], j,
                                      SheetCell(c, i))})

\* C10 as stated: schema validation never short-circuits.  On a sheet
\* with the schema's columns, when validate() has ended the error list
\* holds exactly one error for each (column, row, validator) whose
\* validator fails on that cell; a cell that fails n validators has n
\* errors, and no failure suppresses the errors of another column or row.
C10_NoShortCircuit ==
    (ValidateEnded /\ WellFormed) =>
        \A c \in DOMAIN schema : \A i \in DOMAIN summary_sheet.index :
            \A j \in DOMAIN schema[c].validations :
                ErrorsFor(c, i, j) = IF Fails(c, i, j) THEN 1 ELSE 0

\* The place of a column in the schema.
ColumnIndex(name) == CHOOSE c \in DOMAIN schema : schema[c].name = name
\* Every validation of every column passes every cell of the sheet.
NoViolation ==
    \A c \in DOMAIN schema : \A i \in DOMAIN summary_sheet.index :
        \A j \in DOMAIN schema[c].validations :
            \E r \in {Validate(schema[c].validations[j], <<SheetCell(c, i)>>)} :
                ~r.raised /\ r.ok[1]
\* e comes before f by column, then row (then place of the validation).
ColumnThenRow(e, f) ==
    \/ ColumnIndex(e.column) < ColumnIndex(f.column)
    \/ /\ e.column = f.column
       /\ e.row < f.row \/ (e.row = f.row /\ e.validation < f.validation)
\* e comes before f by row, then column, then place of the validation.
RowThenColumn(e, f) ==
    \/ e.row < f.row
    \/ /\ e.row = f.row
       /\ \/ ColumnIndex(e.column) < ColumnIndex(f.column)
          \/ e.column = f.column /\ e.validation < f.validation
ValidatedTwice == stage \in {"validate", "report"} /\ Len(history) >= 2

---------------------------------------------------------------------------
(* Claims on the groups of the station-by-station validation               *)

\* The leaf groups selected so far that hold the row label.
GroupsWith(label) == {g \in DOMAIN leaf_groups : label \in Range(leaf_groups[g])}

\* C12 as stated: when the grouped validation has ended, every row of the
\* table belongs to exactly one leaf group (cruise, then station within
\* the cruise): the groups are pairwise disjoint and their union is the
\* whole table, rows with a null Cruise or Station included, so that no
\* row escapes the metadata check.
C12_Partition ==
    MetadataEnded =>
        \A i \in DOMAIN metadata.index :
            Cardinality(GroupsWith(metadata.index[i])) = 1

---------------------------------------------------------------------------
(* Claims on the silence of the header check                               *)

IsPrefix(a, b) == Len(a) <= Len(b) /\ \A i \in DOMAIN a : a[i] = b[i]

\* C13: when the header loop has ended, nothing has been printed if and
\* only if the actual columns are a prefix of the expected headers (all of
\* them, or the first n); expected headers beyond the end of the actual
\* columns are not reported as missing.
C13_SilentIffPrefix ==
    HeaderDone => (printed = << >> <=> IsPrefix(columns, column_headers))

\* A finished scan of a table that lacks trailing expected columns, with
\* nothing printed.
C13_Witness ==
    /\ HeaderDone
    /\ columns # << >>
    /\ Len(columns) < Len(column_headers)
    /\ IsPrefix(columns, column_headers)
    /\ printed = << >>

===========================================================================
